---- MODULE Spec2Model ----
(***************************************************************************)
(* The in-memory search engine of src/main.cpp (class SearchServer) as a   *)
(* state machine.                                                          *)
(*                                                                         *)
(* Representation.                                                         *)
(*  - A std::string is a sequence of character codes (char as an integer): *)
(*    32 is ' ', 45 is '-', 97.. are letters, 18 is the byte \x12 that     *)
(*    main() puts into a document.                                         *)
(*  - A double is a fixed-point integer.  A term frequency is kept as the  *)
(*    pair <<k, n>>: the value reached by adding 1/n to 0.0 k times.  A    *)
(*    relevance and an inverse document frequency are integers in units of *)
(*    1e-8, so that DELTA = 1e-6 is 100 units.                             *)
(*  - std::map<int, T> is a function on its key set, std::set<string> a    *)
(*    set; where the code depends on their iteration order the model       *)
(*    iterates in ascending key order.                                     *)
(***************************************************************************)
EXTENDS Integers, Sequences, FiniteSets, TLC

VARIABLES stop_words_, word_to_document_freqs_, documents_, last

vars == <<stop_words_, word_to_document_freqs_, documents_, last>>

engine == <<stop_words_, word_to_document_freqs_, documents_>>

(***************************************************************************)
(* Program constants.                                                      *)
(***************************************************************************)
MAX_RESULT_DOCUMENT_COUNT == 5

\* const double DELTA = 1e-6, in units of 1e-8.
DELTA == 100

INVALID_DOCUMENT_ID == -1

\* ' ', the separator of SplitIntoWords and the upper end of the control range.
Space == 32

\* '-', the marker of a minus word.
Minus == 45

DocumentStatus == {"ACTUAL", "IRRELEVANT", "BANNED", "REMOVED"}

(***************************************************************************)
(* SplitIntoWords: the loop over the characters of text, carrying          *)
(* (words, word).  SplitStep is one iteration of the loop body;            *)
(* SplitLoop(text, lo, hi, words, word) is the loop run over text[lo..hi]  *)
(* in order from the loop state (words, word) (the range is halved only to *)
(* keep the evaluation shallow; the iterations run left to right, the left *)
(* half first).                                                            *)
(***************************************************************************)
Only(S) == CHOOSE x \in S : TRUE

SplitStep(words, word, c) ==
    IF c = Space
    THEN IF word # <<>>
         THEN [words |-> Append(words, word), word |-> <<>>]
         ELSE [words |-> words, word |-> word]
    ELSE [words |-> words, word |-> Append(word, c)]

RECURSIVE SplitLoop(_, _, _, _, _)
SplitLoop(text, lo, hi, words, word) ==
    IF lo > hi THEN [words |-> words, word |-> word]
    ELSE IF lo = hi THEN SplitStep(words, word, text[lo])
    ELSE LET mid == (lo + hi) \div 2
         IN  Only({SplitLoop(text, mid + 1, hi, left.words, left.word) :
                       left \in {SplitLoop(text, lo, mid, words, word)}})

SplitIntoWords(text) ==
    LET st == SplitLoop(text, 1, Len(text), <<>>, <<>>)
    IN  IF st.word # <<>> THEN Append(st.words, st.word) ELSE st.words

(***************************************************************************)
(* IsValidWord: false for the string "-", and for a string holding a       *)
(* character c with c >= '\0' && c < ' '.                                  *)
(***************************************************************************)
\* A faulty IsValidWord, to try the properties on: control characters pass.
IsValidWordNoControlCheck(word) ==
    word # <<Minus>>

\* A faulty IsValidWord, to try the properties on: the string "-" passes.
IsValidWordNoMinusCheck(word) ==
    \A i \in 1..Len(word) : ~(word[i] >= 0 /\ word[i] < Space)

IsValidWord(word) ==
    IF word = <<Minus>>
    THEN FALSE
    ELSE \A i \in 1..Len(word) : ~(word[i] >= 0 /\ word[i] < Space)

IsStopWord(word) == word \in stop_words_

\* A faulty SplitIntoWordsNoStop, to try the properties on: stop words stay.
SplitIntoWordsKeepStop(text) == SplitIntoWords(text)

SplitIntoWordsNoStop(text) ==
    SelectSeq(SplitIntoWords(text), LAMBDA word : ~IsStopWord(word))

(***************************************************************************)
(* ComputeAverageRating: int sum / int size, which C++ truncates toward    *)
(* zero (\div rounds down, so a negative sum is divided by magnitude).     *)
(***************************************************************************)
RECURSIVE RatingSum(_, _)
RatingSum(ratings, i) ==
    IF i > Len(ratings) THEN 0 ELSE ratings[i] + RatingSum(ratings, i + 1)

TruncDiv(a, b) == IF a >= 0 THEN a \div b ELSE -((-a) \div b)

ComputeAverageRating(ratings) ==
    IF ratings = <<>>
    THEN 0
    ELSE TruncDiv(RatingSum(ratings, 1), Len(ratings))

(***************************************************************************)
(* word_to_document_freqs_[word][document_id] += inv_word_count, where     *)
(* operator[] creates a missing entry with the value 0.0 = <<0, n>>.       *)
(***************************************************************************)
AddFreq(freqs, word, document_id, n) ==
    LET postings == IF word \in DOMAIN freqs THEN freqs[word] ELSE << >>
        old == IF document_id \in DOMAIN postings THEN postings[document_id] ELSE <<0, n>>
        new == (document_id :> <<old[1] + 1, n>>) @@ postings
    IN  (word :> new) @@ freqs

\* for (const string& word : words) over words[lo..hi], in order.
RECURSIVE AddFreqLoop(_, _, _, _, _)
AddFreqLoop(freqs, words, lo, hi, document_id) ==
    IF lo > hi THEN freqs
    ELSE IF lo = hi THEN AddFreq(freqs, words[lo], document_id, Len(words))
    ELSE LET mid == (lo + hi) \div 2
         IN  Only({AddFreqLoop(left, words, mid + 1, hi, document_id) :
                       left \in {AddFreqLoop(freqs, words, lo, mid, document_id)}})

GetDocumentCount == Cardinality(DOMAIN documents_)

AddDocument(document_id, document, status, ratings) ==
    IF document_id < 0 \/ document_id \in DOMAIN documents_ \/ ~IsValidWord(document)
    THEN /\ UNCHANGED engine
         /\ last' = [op |-> "AddDocument", document_id |-> document_id,
                     document |-> document, status |-> status,
                     ratings |-> ratings, ret |-> FALSE]
    ELSE LET words == SplitIntoWordsNoStop(document)
             data == [rating |-> ComputeAverageRating(ratings), status |-> status]
         IN  /\ word_to_document_freqs_' =
                    IF words = <<>>
                    THEN word_to_document_freqs_
                    ELSE AddFreqLoop(word_to_document_freqs_, words, 1, Len(words),
                                     document_id)
             /\ documents_' = (document_id :> data) @@ documents_
             /\ UNCHANGED stop_words_
             /\ last' = [op |-> "AddDocument", document_id |-> document_id,
                         document |-> document, status |-> status,
                         ratings |-> ratings, ret |-> TRUE]

(***************************************************************************)
(* SetStopWords(text) and the constructor from a space-delimited string.   *)
(***************************************************************************)
Range(s) == {s[i] : i \in 1..Len(s)}

SetStopWords(text) ==
    /\ stop_words_' = stop_words_ \cup Range(SplitIntoWords(text))
    /\ UNCHANGED <<word_to_document_freqs_, documents_>>
    /\ last' = [op |-> "SetStopWords", text |-> text]

SearchServer(stop_words_text) ==
    /\ stop_words_ = {word \in Range(SplitIntoWords(stop_words_text)) : Len(word) > 0}
    /\ word_to_document_freqs_ = << >>
    /\ documents_ = << >>
    /\ last = [op |-> "SearchServer", stop_words_text |-> stop_words_text]

(***************************************************************************)
(* ParseQueryWord and ParseQuery.  An optional<T> is a record with the     *)
(* field has_value.  text[i] on a std::string reads the terminating '\0'   *)
(* at i = size().                                                          *)
(***************************************************************************)
CharAt(text, i) == IF i < Len(text) THEN text[i + 1] ELSE 0

\* A faulty ParseQueryWord, to try the properties on: is_stop is always false.
ParseQueryWordKeepStop(text) ==
    IF ~IsValidWord(text)
    THEN [has_value |-> FALSE]
    ELSE IF CharAt(text, 0) = Minus
         THEN IF CharAt(text, 1) = Minus
              THEN [has_value |-> FALSE]
              ELSE [has_value |-> TRUE, data |-> Tail(text), is_minus |-> TRUE,
                    is_stop |-> FALSE]
         ELSE [has_value |-> TRUE, data |-> text, is_minus |-> FALSE,
               is_stop |-> FALSE]

ParseQueryWord(text) ==
    IF ~IsValidWord(text)
    THEN [has_value |-> FALSE]
    ELSE IF CharAt(text, 0) = Minus
         THEN IF CharAt(text, 1) = Minus
              THEN [has_value |-> FALSE]
              ELSE [has_value |-> TRUE, data |-> Tail(text), is_minus |-> TRUE,
                    is_stop |-> IsStopWord(Tail(text))]
         ELSE [has_value |-> TRUE, data |-> text, is_minus |-> FALSE,
               is_stop |-> IsStopWord(text)]

\* for (const string& word : SplitIntoWords(text)), from words[i] on.
RECURSIVE ParseQueryLoop(_, _, _, _)
ParseQueryLoop(words, i, plus_words, minus_words) ==
    IF i > Len(words)
    THEN [has_value |-> TRUE, plus_words |-> plus_words, minus_words |-> minus_words]
    ELSE LET query_word == ParseQueryWord(words[i])
         IN  IF ~query_word.has_value
             THEN [has_value |-> FALSE]
             ELSE IF ~query_word.is_stop
                  THEN IF query_word.is_minus
                       THEN ParseQueryLoop(words, i + 1, plus_words,
                                           minus_words \cup {query_word.data})
                       ELSE ParseQueryLoop(words, i + 1,
                                           plus_words \cup {query_word.data}, minus_words)
                  ELSE ParseQueryLoop(words, i + 1, plus_words, minus_words)

ParseQuery(text) == ParseQueryLoop(SplitIntoWords(text), 1, {}, {})

(***************************************************************************)
(* Iteration order of std::set<string> and std::map<int, T>: ascending,    *)
(* strings compared character by character.                                *)
(***************************************************************************)
RECURSIVE LexLess(_, _)
LexLess(a, b) ==
    IF b = <<>> THEN FALSE
    ELSE IF a = <<>> THEN TRUE
    ELSE IF Head(a) # Head(b) THEN Head(a) < Head(b)
    ELSE LexLess(Tail(a), Tail(b))

RECURSIVE StringsInOrder(_)
StringsInOrder(S) ==
    IF S = {}
    THEN <<>>
    ELSE LET first == CHOOSE x \in S : \A y \in S \ {x} : LexLess(x, y)
         IN  <<first>> \o StringsInOrder(S \ {first})

RECURSIVE KeysInOrder(_)
KeysInOrder(S) ==
    IF S = {}
    THEN <<>>
    ELSE LET first == CHOOSE x \in S : \A y \in S : x <= y
         IN  <<first>> \o KeysInOrder(S \ {first})

(***************************************************************************)
(* A caller's DocumentPredicate is a tuple: the lambda of the status       *)
(* overload, <<"status", s>>, or one of the callables the callers of this  *)
(* model pass.                                                             *)
(***************************************************************************)
\* A faulty predicate call, to try the properties on: every document passes.
CallIgnored(document_predicate, document_id, status, rating) == TRUE

Call(document_predicate, document_id, status, rating) ==
    CASE document_predicate[1] = "status" -> status = document_predicate[2]
      [] document_predicate[1] = "even_id" -> document_id % 2 = 0
      [] document_predicate[1] = "rating_positive" -> rating > 0
      [] document_predicate[1] = "any" -> TRUE

(***************************************************************************)
(* ComputeWordInverseDocumentFreq: log(GetDocumentCount() * 1.0 / size),   *)
(* in units of 1e-8, from the natural logarithms of 1..12.                 *)
(***************************************************************************)
Log8(n) ==
    CASE n = 1 -> 0
      [] n = 2 -> 69314718
      [] n = 3 -> 109861229
      [] n = 4 -> 138629436
      [] n = 5 -> 160943791
      [] n = 6 -> 179175947
      [] n = 7 -> 194591015
      [] n = 8 -> 207944154
      [] n = 9 -> 219722458
      [] n = 10 -> 230258509
      [] n = 11 -> 239789527
      [] n = 12 -> 248490665

ComputeWordInverseDocumentFreq(word) ==
    Log8(GetDocumentCount) - Log8(Cardinality(DOMAIN word_to_document_freqs_[word]))

\* term_freq * inverse_document_freq for term_freq = <<k, n>>: k * idf / n,
\* rounded down, computed without leaving 32 bits.
Times(term_freq, inverse_document_freq) ==
    LET k == term_freq[1]
        n == term_freq[2]
    IN  k * (inverse_document_freq \div n) + (k * (inverse_document_freq % n)) \div n

(***************************************************************************)
(* FindAllDocuments.  The first loop accumulates term_freq * idf into      *)
(* document_to_relevance for the documents the predicate accepts, the      *)
(* second erases the documents posted under a minus word, the third copies *)
(* the map in ascending id order.  A documents_.at(id) that finds no       *)
(* entry throws std::out_of_range.                                         *)
(***************************************************************************)
\* One iteration of the loop over query.plus_words.
Accumulate(document_to_relevance, word, key_mapper) ==
    IF word \notin DOMAIN word_to_document_freqs_
    THEN document_to_relevance
    ELSE LET inverse_document_freq == ComputeWordInverseDocumentFreq(word)
             postings == word_to_document_freqs_[word]
             accepted == {document_id \in DOMAIN postings :
                             Call(key_mapper, document_id,
                                  documents_[document_id].status,
                                  documents_[document_id].rating)}
         IN  [document_id \in (DOMAIN document_to_relevance) \cup accepted |->
                 (IF document_id \in DOMAIN document_to_relevance
                  THEN document_to_relevance[document_id] ELSE 0)
                 + (IF document_id \in accepted
                    THEN Times(postings[document_id], inverse_document_freq)
                    ELSE 0)]

RECURSIVE AccumulateLoop(_, _, _, _)
AccumulateLoop(document_to_relevance, words, i, key_mapper) ==
    IF i > Len(words)
    THEN document_to_relevance
    ELSE AccumulateLoop(Accumulate(document_to_relevance, words[i], key_mapper),
                        words, i + 1, key_mapper)

\* A faulty EraseMinus, to try the properties on: nothing is erased.
EraseNothing(document_to_relevance, minus_words) == document_to_relevance

\* The loop over query.minus_words: document_to_relevance.erase(document_id).
EraseMinus(document_to_relevance, minus_words) ==
    LET erased == UNION {DOMAIN word_to_document_freqs_[word] :
                            word \in minus_words \cap DOMAIN word_to_document_freqs_}
    IN  [document_id \in (DOMAIN document_to_relevance) \ erased |->
            document_to_relevance[document_id]]

\* Whether some documents_.at(document_id) of FindAllDocuments finds no entry.
LookupFails(query) ==
    \E word \in query.plus_words \cap DOMAIN word_to_document_freqs_ :
        \E document_id \in DOMAIN word_to_document_freqs_[word] :
            document_id \notin DOMAIN documents_

FindAllDocuments(query, key_mapper) ==
    LET scored == AccumulateLoop(<< >>, StringsInOrder(query.plus_words), 1, key_mapper)
        document_to_relevance == EraseMinus(scored, query.minus_words)
        ids == KeysInOrder(DOMAIN document_to_relevance)
    IN  [i \in 1..Len(ids) |->
            [id |-> ids[i],
             relevance |-> document_to_relevance[ids[i]],
             rating |-> documents_[ids[i]].rating]]

(***************************************************************************)
(* std::sort with the comparator of FindTopDocuments.  When the comparator *)
(* is a strict weak ordering of the elements, the result is any            *)
(* arrangement with no later element ordered before an earlier one (the    *)
(* sort is not stable).  When it is not, the call has undefined behaviour  *)
(* and the elements may be left in any order.                              *)
(***************************************************************************)
Abs(x) == IF x < 0 THEN -x ELSE x

Less(lhs, rhs) ==
    IF Abs(lhs.relevance - rhs.relevance) < DELTA
    THEN lhs.rating > rhs.rating
    ELSE lhs.relevance > rhs.relevance

IsStrictWeakOrdering(S) ==
    /\ \A a, b, c \in S : Less(a, b) /\ Less(b, c) => Less(a, c)
    /\ \A a, b, c \in S :
          (~Less(a, b) /\ ~Less(b, a) /\ ~Less(b, c) /\ ~Less(c, b))
              => (~Less(a, c) /\ ~Less(c, a))

RECURSIVE Arrangements(_, _)
Arrangements(S, ordered) ==
    IF S = {}
    THEN {<<>>}
    ELSE UNION {{<<x>> \o rest : rest \in Arrangements(S \ {x}, ordered)} :
                   x \in {x \in S : ordered => \A y \in S : ~Less(y, x)}}

Sort(result) ==
    LET S == Range(result)
    IN  Arrangements(S, IsStrictWeakOrdering(S))

(***************************************************************************)
(* FindTopDocuments: the template overload, called directly or through the *)
(* status overload or the overload without a filter.                       *)
(***************************************************************************)
TopDocuments(overload, raw_query, document_predicate) ==
    LET query == ParseQuery(raw_query)
        call == [op |-> "FindTopDocuments", overload |-> overload,
                 raw_query |-> raw_query, document_predicate |-> document_predicate]
    IN  /\ UNCHANGED engine
        /\ IF ~IsValidWord(raw_query) \/ ~query.has_value
           THEN last' = call @@ [outcome |-> "nullopt"]
           ELSE IF LookupFails(query)
                THEN last' = call @@ [outcome |-> "out_of_range", query |-> query]
                ELSE \E sorted \in Sort(FindAllDocuments(query, document_predicate)) :
                        last' = call @@
                            [outcome |-> "value", query |-> query,
                             value |-> IF Len(sorted) > MAX_RESULT_DOCUMENT_COUNT
                                       THEN SubSeq(sorted, 1, MAX_RESULT_DOCUMENT_COUNT)
                                       ELSE sorted]

FindTopDocumentsPredicate(raw_query, document_predicate) ==
    TopDocuments("predicate", raw_query, document_predicate)

FindTopDocumentsStatus(raw_query, status) ==
    TopDocuments("status", raw_query, <<"status", status>>)

FindTopDocuments(raw_query) ==
    TopDocuments("default", raw_query, <<"status", "ACTUAL">>)

(***************************************************************************)
(* MatchDocument.                                                          *)
(***************************************************************************)
Posted(word, document_id) ==
    /\ word \in DOMAIN word_to_document_freqs_
    /\ document_id \in DOMAIN word_to_document_freqs_[word]

MatchedWords(query, document_id) ==
    LET plus == StringsInOrder(query.plus_words)
        matched_words == SelectSeq(plus, LAMBDA word : Posted(word, document_id))
    IN  IF \E word \in query.minus_words : Posted(word, document_id)
        THEN <<>>
        ELSE matched_words

MatchDocument(raw_query, document_id) ==
    LET query == ParseQuery(raw_query)
        call == [op |-> "MatchDocument", raw_query |-> raw_query,
                 document_id |-> document_id]
    IN  /\ UNCHANGED engine
        /\ IF ~IsValidWord(raw_query) \/ ~query.has_value
           THEN last' = call @@ [outcome |-> "nullopt"]
           ELSE IF document_id \notin DOMAIN documents_
                THEN last' = call @@ [outcome |-> "out_of_range", query |-> query]
                ELSE last' = call @@
                        [outcome |-> "value", query |-> query,
                         matched_words |-> MatchedWords(query, document_id),
                         status |-> documents_[document_id].status]

(***************************************************************************)
(* GetDocumentCount and GetDocumentId.                                     *)
(***************************************************************************)
\* for (const auto& doc : documents_) with the counter doc_index.
RECURSIVE GetDocumentIdLoop(_, _, _)
GetDocumentIdLoop(keys, doc_index, index) ==
    IF doc_index >= Len(keys)
    THEN INVALID_DOCUMENT_ID
    ELSE IF doc_index = index
         THEN keys[doc_index + 1]
         ELSE GetDocumentIdLoop(keys, doc_index + 1, index)

\* A faulty DocumentId, to try the properties on: the position is off by one.
DocumentIdOffByOne(index) ==
    IF index < 0 \/ index >= Cardinality(DOMAIN documents_)
    THEN INVALID_DOCUMENT_ID
    ELSE GetDocumentIdLoop(KeysInOrder(DOMAIN documents_), 0, index + 1)

DocumentId(index) ==
    IF index < 0 \/ index >= Cardinality(DOMAIN documents_)
    THEN INVALID_DOCUMENT_ID
    ELSE GetDocumentIdLoop(KeysInOrder(DOMAIN documents_), 0, index)

GetDocumentId(index) ==
    /\ UNCHANGED engine
    /\ last' = [op |-> "GetDocumentId", index |-> index, ret |-> DocumentId(index)]

GetDocumentCountCall ==
    /\ UNCHANGED engine
    /\ last' = [op |-> "GetDocumentCount", ret |-> GetDocumentCount]

(***************************************************************************)
(* The callers.  Each specification is the engine driven by one caller,    *)
(* which makes any of the public calls, in any order, with arguments from  *)
(* its own sets.  In the strings, 97 98 99 are the letters a b c and 18 is *)
(* the control character \x12.  In last, the caller keeps its latest call  *)
(* and what the call returned (for a query also the Query that ParseQuery  *)
(* gave the operation).                                                    *)
(***************************************************************************)
MaxId == 1

MaxQueryLen == 3

Strings(alphabet, n) == UNION {[1..k -> alphabet] : k \in 0..n}

(***************************************************************************)
(* Spec: ingestion.  Documents with repeated and stop words, runs of       *)
(* spaces, "-" alone and among other words, a control character; ids from  *)
(* -1; stop words set at construction and later.                           *)
(***************************************************************************)
DocumentIds == -1..MaxId

Documents ==
    { <<>>,                           \* ""
      <<98>>,                         \* "b"
      <<98, 32, 32, 97, 32, 98>>,     \* "b  a b"
      <<Minus>>,                      \* "-"
      <<97, 32, Minus>>,              \* "a -"
      <<97, 18>> }                    \* "a\x12"

IngestQueries ==
    { <<97>>,                         \* "a"
      <<98, 32, Minus, 97>> }         \* "b -a"

IngestStatuses == {"ACTUAL", "BANNED"}

IngestInit == SearchServer(<<>>)

IngestNext ==
    \/ \E document_id \in DocumentIds, document \in Documents,
          status \in IngestStatuses :
          AddDocument(document_id, document, status, <<1, 2>>)
    \/ SetStopWords(<<98>>)
    \/ \E raw_query \in IngestQueries : FindTopDocuments(raw_query)
    \/ \E raw_query \in IngestQueries : FindTopDocumentsStatus(raw_query, "BANNED")
    \/ \E raw_query \in IngestQueries :
          FindTopDocumentsPredicate(raw_query, <<"even_id">>)
    \/ \E raw_query \in IngestQueries, document_id \in 0..MaxId :
          MatchDocument(raw_query, document_id)
    \/ \E index \in -1..(MaxId + 1) : GetDocumentId(index)
    \/ GetDocumentCountCall

Spec == IngestInit /\ [][IngestNext]_vars

(***************************************************************************)
(* SpecQuery: query parsing.  Every raw query of at most MaxQueryLen       *)
(* characters over {a, ' ', '-', \x12} and six longer ones, against a      *)
(* store of at most two documents, with "b" a stop word; match_document    *)
(* is also called with an id that is never stored.                         *)
(***************************************************************************)
QueryAlphabet == {97, Space, Minus, 18}

LongerQueries ==
    { <<97, 32, Minus, 97>>,          \* "a -a"
      <<Minus, 97, 32, 97>>,          \* "-a a"
      <<98, 32, Minus, 97>>,          \* "b -a"
      <<97, 32, Minus, 98>>,          \* "a -b"
      <<97, 32, Minus, Minus, 97>>,   \* "a --a"
      <<98, 32, 97, 32, Minus, 97>> } \* "b a -a"

Queries == Strings(QueryAlphabet, MaxQueryLen) \cup LongerQueries

QueryDocuments ==
    { <<97>>,                         \* "a"
      <<97, 32, 98>> }                \* "a b"

QueryInit == SearchServer(<<98>>)

QueryNext ==
    \/ \E document_id \in 0..1, document \in QueryDocuments :
          AddDocument(document_id, document, "ACTUAL", <<1>>)
    \/ SetStopWords(<<98>>)
    \/ \E raw_query \in Queries : FindTopDocuments(raw_query)
    \/ \E raw_query \in Queries : FindTopDocumentsStatus(raw_query, "BANNED")
    \/ \E raw_query \in Queries : FindTopDocumentsPredicate(raw_query, <<"any">>)
    \/ \E raw_query \in Queries, document_id \in 0..2 :
          MatchDocument(raw_query, document_id)
    \/ \E index \in 0..1 : GetDocumentId(index)
    \/ GetDocumentCountCall

SpecQuery == QueryInit /\ [][QueryNext]_vars

(***************************************************************************)
(* SpecTop: ranking over a corpus of seven documents, added in any order:  *)
(* several statuses and ratings (also a negative mean and an empty list),  *)
(* two documents alike in text and rating, six documents with the word a.  *)
(* "c" is a stop word.                                                     *)
(***************************************************************************)
TopCorpus ==
    { <<0, <<97, 32, 98>>, "ACTUAL", <<7, 2, 7>>>>,        \* "a b"
      <<1, <<97>>, "ACTUAL", <<1, 2>>>>,                   \* "a"
      <<2, <<97, 32, 99>>, "BANNED", <<>>>>,               \* "a c"
      <<3, <<98>>, "ACTUAL", <<-1, -2>>>>,                 \* "b"
      <<4, <<97, 32, 97, 32, 98>>, "IRRELEVANT", <<3>>>>,  \* "a a b"
      <<5, <<97>>, "ACTUAL", <<1, 2>>>>,                   \* "a"
      <<6, <<97, 32, 98>>, "ACTUAL", <<4>>>> }             \* "a b"

TopQueries ==
    { <<>>,                           \* ""
      <<97>>,                         \* "a"
      <<98>>,                         \* "b"
      <<97, 32, 98>>,                 \* "a b"
      <<97, 32, Minus, 98>>,          \* "a -b"
      <<Minus, 97>>,                  \* "-a"
      <<99, 32, 97>> }                \* "c a"

TopPredicates == {<<"even_id">>, <<"rating_positive">>, <<"any">>}

TopStatuses == {"BANNED", "IRRELEVANT"}

TopInit == SearchServer(<<99>>)

TopNext ==
    \/ \E c \in TopCorpus : AddDocument(c[1], c[2], c[3], c[4])
    \/ SetStopWords(<<99>>)
    \/ \E raw_query \in TopQueries : FindTopDocuments(raw_query)
    \/ \E raw_query \in TopQueries, status \in TopStatuses :
          FindTopDocumentsStatus(raw_query, status)
    \/ \E raw_query \in TopQueries, document_predicate \in TopPredicates :
          FindTopDocumentsPredicate(raw_query, document_predicate)
    \/ \E raw_query \in TopQueries, c \in TopCorpus : MatchDocument(raw_query, c[1])
    \/ \E index \in 0..6 : GetDocumentId(index)
    \/ GetDocumentCountCall

SpecTop == TopInit /\ [][TopNext]_vars

(***************************************************************************)
(* SpecRank: relevances within DELTA of each other.  Three documents hold  *)
(* the word a once among LongDocumentWords, LongDocumentWords + 1 and      *)
(* LongDocumentWords + 2 words, a fourth does not hold it.                 *)
(***************************************************************************)
LongDocumentWords == 600

\* "a b b ... b" of n words.
LongDocument(n) ==
    [i \in 1..(2 * n - 1) |-> IF i % 2 = 0 THEN Space ELSE IF i = 1 THEN 97 ELSE 98]

RankCorpus ==
    { <<0, LongDocument(LongDocumentWords), "ACTUAL", <<1>>>>,
      <<1, LongDocument(LongDocumentWords + 1), "ACTUAL", <<2>>>>,
      <<2, LongDocument(LongDocumentWords + 2), "ACTUAL", <<3>>>>,
      <<3, <<98>>, "ACTUAL", <<>>>> }

RankQueries ==
    { <<97>>,                         \* "a"
      <<98>>,                         \* "b"
      <<97, 32, 98>> }                \* "a b"

RankInit == SearchServer(<<>>)

RankNext ==
    \/ \E c \in RankCorpus : AddDocument(c[1], c[2], c[3], c[4])
    \/ SetStopWords(<<99>>)
    \/ \E raw_query \in RankQueries : FindTopDocuments(raw_query)
    \/ \E raw_query \in RankQueries : FindTopDocumentsStatus(raw_query, "BANNED")
    \/ \E raw_query \in RankQueries :
          FindTopDocumentsPredicate(raw_query, <<"rating_positive">>)
    \/ \E raw_query \in RankQueries, document_id \in 0..3 :
          MatchDocument(raw_query, document_id)
    \/ \E index \in 0..3 : GetDocumentId(index)
    \/ GetDocumentCountCall

SpecRank == RankInit /\ [][RankNext]_vars

(***************************************************************************)
(* Vocabulary of the properties.                                           *)
(***************************************************************************)
\* text holds a character with code in 0..31.
HasControlCharacter(text) == \E i \in 1..Len(text) : text[i] \in 0..31

\* text[i..j] is a space-delimited token of text.
IsToken(text, i, j) ==
    /\ 1 <= i /\ i <= j /\ j <= Len(text)
    /\ \A k \in i..j : text[k] # Space
    /\ i = 1 \/ text[i - 1] = Space
    /\ j = Len(text) \/ text[j + 1] = Space

\* text has a space-delimited token equal to "-".
HasMinusToken(text) == \E i \in 1..Len(text) : IsToken(text, i, i) /\ text[i] = Minus

\* text has a space-delimited token beginning with "--".
HasDoubleMinusToken(text) ==
    \E i \in 1..Len(text), j \in 1..Len(text) :
        IsToken(text, i, j) /\ j > i /\ text[i] = Minus /\ text[i + 1] = Minus

\* The tokens of text that are not stop words, in order.
TokensLeft(text) == SelectSeq(SplitIntoWords(text), LAMBDA w : w \notin stop_words_)

Occurrences(tokens, w) == Cardinality({i \in 1..Len(tokens) : tokens[i] = w})

\* The words under which document_id is posted in the index f.
TermsOf(f, document_id) == {w \in DOMAIN f : document_id \in DOMAIN f[w]}

RECURSIVE SumOfCounts(_, _, _)
SumOfCounts(f, document_id, words) ==
    IF words = {}
    THEN 0
    ELSE LET w == CHOOSE x \in words : TRUE
         IN  f[w][document_id][1] + SumOfCounts(f, document_id, words \ {w})

(***************************************************************************)
(* C1.  add_document with a negative id, an id already in the store, or a  *)
(* text holding a character with code 0..31 returns false and leaves the   *)
(* stop words, the store (count, ratings, statuses) and every posting of   *)
(* the index as they were.                                                 *)
(***************************************************************************)
C1_RejectedAddChangesNothing ==
    [][ (/\ last'.op = "AddDocument"
         /\ \/ last'.document_id < 0
            \/ last'.document_id \in DOMAIN documents_
            \/ HasControlCharacter(last'.document))
        => (/\ last'.ret = FALSE
            /\ documents_' = documents_
            /\ word_to_document_freqs_' = word_to_document_freqs_
            /\ stop_words_' = stop_words_
            /\ GetDocumentCount' = GetDocumentCount) ]_vars

\* A second document offered under a stored id, with another status and a
\* text that would add postings, has been refused.
C1_Witness ==
    /\ last.op = "AddDocument"
    /\ last.ret = FALSE
    /\ last.document_id \in DOMAIN documents_
    /\ documents_[last.document_id].status # last.status
    /\ TokensLeft(last.document) # <<>>
    /\ TermsOf(word_to_document_freqs_, last.document_id) = {}

C8_TermFrequenciesSumToOne ==
    /\ [](\A id \in DOMAIN documents_ :
            LET terms == TermsOf(word_to_document_freqs_, id)
            IN  \A w \in terms :
                   word_to_document_freqs_[w][id][2] =
                       SumOfCounts(word_to_document_freqs_, id, terms))
    /\ [][ /\ (/\ last'.op = "AddDocument"
               /\ last'.ret = TRUE
               /\ last'.document_id \notin DOMAIN documents_)
              => LET id == last'.document_id
                     tokens == TokensLeft(last'.document)
                     f == word_to_document_freqs_'
                 IN  /\ id \in DOMAIN documents_'
                     /\ TermsOf(f, id) = Range(tokens)
                     /\ \A w \in Range(tokens) :
                           f[w][id] = <<Occurrences(tokens, w), Len(tokens)>>
                     /\ tokens # <<>> => SumOfCounts(f, id, TermsOf(f, id)) = Len(tokens)
           /\ \A id \in DOMAIN documents_ :
                 /\ TermsOf(word_to_document_freqs_', id) = TermsOf(word_to_document_freqs_, id)
                 /\ \A w \in TermsOf(word_to_document_freqs_, id) :
                       word_to_document_freqs_'[w][id] = word_to_document_freqs_[w][id]
         ]_vars

\* "b  a b" was accepted while "b" was a stop word: one token left, a.
C8_Witness ==
    /\ last.op = "AddDocument"
    /\ last.ret = TRUE
    /\ Len(SplitIntoWords(last.document)) = 3
    /\ Len(TokensLeft(last.document)) = 1
    /\ \E w \in DOMAIN word_to_document_freqs_ :
          /\ last.document_id \in DOMAIN word_to_document_freqs_[w]
          /\ word_to_document_freqs_[w][last.document_id] = <<1, 1>>

(***************************************************************************)
(* C10.  get_document_count() is 0 at construction, grows by one with each *)
(* add_document that returns true and by nothing else; get_document_id(i)  *)
(* is the stored id with exactly i smaller stored ids when                 *)
(* 0 <= i < get_document_count(), and -1 otherwise.                        *)
(***************************************************************************)
C10_CountAndIdOrder ==
    /\ GetDocumentCount = 0
    /\ [][ /\ GetDocumentCount' =
                 GetDocumentCount
                 + (IF last'.op = "AddDocument" /\ last'.ret THEN 1 ELSE 0)
           /\ last'.op = "GetDocumentCount" => last'.ret = Cardinality(DOMAIN documents_')
           /\ last'.op = "GetDocumentId" =>
                 IF 0 <= last'.index /\ last'.index < Cardinality(DOMAIN documents_')
                 THEN /\ last'.ret \in DOMAIN documents_'
                      /\ Cardinality({id \in DOMAIN documents_' : id < last'.ret})
                            = last'.index
                 ELSE last'.ret = -1
         ]_vars

\* Position 1 of a store of two documents has been asked for.
C10_Witness ==
    /\ last.op = "GetDocumentId"
    /\ last.index = 1
    /\ GetDocumentCount = 2
    /\ last.ret = 1

(***************************************************************************)
(* More vocabulary: the queries.                                           *)
(***************************************************************************)
IsQuery == last.op \in {"FindTopDocuments", "MatchDocument"}

\* The raw query is one that the claims call invalid.
InvalidQuery(raw_query) ==
    \/ HasControlCharacter(raw_query)
    \/ HasMinusToken(raw_query)
    \/ HasDoubleMinusToken(raw_query)

Tokens(raw_query) == Range(SplitIntoWords(raw_query))

\* The required and the excluded terms of a valid raw query.
RequiredTerms(raw_query) ==
    {t \in Tokens(raw_query) : t[1] # Minus} \ stop_words_

ExcludedTerms(raw_query) ==
    {Tail(t) : t \in {t \in Tokens(raw_query) : t[1] = Minus}} \ stop_words_

\* The predicate of the latest find_top_documents, applied to a stored document.
Accepts(document_id) ==
    LET status == documents_[document_id].status
        rating == documents_[document_id].rating
        p == last.document_predicate
    IN  CASE last.overload = "default" -> status = "ACTUAL"
          [] last.overload = "status" -> status = p[2]
          [] last.overload = "predicate" /\ p = <<"even_id">> -> document_id % 2 = 0
          [] last.overload = "predicate" /\ p = <<"rating_positive">> -> rating > 0
          [] last.overload = "predicate" /\ p = <<"any">> -> TRUE

ReturnedIds == {last.value[i].id : i \in 1..Len(last.value)}

(***************************************************************************)
(* C2.  As claimed: find_top_documents (each overload) and match_document  *)
(* return an absent result exactly when the raw query holds a character    *)
(* with code 0..31, a token equal to "-" or a token beginning with "--";   *)
(* for every other query (the empty one, one that matches nothing) they    *)
(* return a present result.                                                *)
(***************************************************************************)
C2_AbsentExactlyWhenInvalid ==
    IsQuery =>
        /\ last.outcome = "nullopt" <=> InvalidQuery(last.raw_query)
        /\ ~InvalidQuery(last.raw_query) => last.outcome = "value"

\* The part of C2 the code keeps: the same, with match_document called only
\* for the id of a stored document.
C2_ForStoredIds ==
    (/\ IsQuery
     /\ last.op = "MatchDocument" => last.document_id \in DOMAIN documents_)
    => /\ last.outcome = "nullopt" <=> InvalidQuery(last.raw_query)
       /\ ~InvalidQuery(last.raw_query) => last.outcome = "value"

\* A valid query that matches nothing, on a store that is not empty.
C2_Witness ==
    /\ last.op = "FindTopDocuments"
    /\ last.overload = "status"
    /\ ~InvalidQuery(last.raw_query)
    /\ Tokens(last.raw_query) # {}
    /\ GetDocumentCount > 0
    /\ last.outcome = "value"
    /\ last.value = <<>>

(***************************************************************************)
(* C7.  As claimed: the required and the excluded terms of a parsed query  *)
(* are disjoint, and neither holds a stop word or an empty string.         *)
(***************************************************************************)
C7_Original ==
    (IsQuery /\ last.outcome # "nullopt") =>
        /\ last.query.plus_words \cap last.query.minus_words = {}
        /\ \A w \in last.query.plus_words \cup last.query.minus_words :
              w \notin stop_words_ /\ w # <<>>

(***************************************************************************)
(* C7, amended.  Neither set of a parsed query holds a stop word or an     *)
(* empty string, and a term is in both sets exactly when the raw query     *)
(* holds it both as a token "x" and as a token "-x" and it is no stop      *)
(* word; the sets are disjoint otherwise.                                  *)
(***************************************************************************)
C7_Amended ==
    (IsQuery /\ last.outcome # "nullopt") =>
        /\ \A w \in last.query.plus_words \cup last.query.minus_words :
              w \notin stop_words_ /\ w # <<>>
        /\ last.query.plus_words \cap last.query.minus_words =
              {w \in Tokens(last.raw_query) :
                  (<<Minus>> \o w) \in Tokens(last.raw_query)} \ stop_words_

\* A query with a stop word and with a term both required and excluded has
\* been parsed.
C7_Witness ==
    /\ IsQuery
    /\ last.outcome = "value"
    /\ Tokens(last.raw_query) \cap stop_words_ # {}
    /\ last.query.plus_words \cap last.query.minus_words # {}

(***************************************************************************)
(* C9.  As claimed: no operation ends in an exception, whatever its        *)
(* arguments; every lookup of a document id in the store made by           *)
(* find_top_documents and match_document finds an entry.                   *)
(***************************************************************************)
C9_NoOperationThrows ==
    IsQuery => last.outcome # "out_of_range"

(***************************************************************************)
(* C3.  A document posted under an excluded term of the query is not in    *)
(* the result of find_top_documents, and match_document for it returns no  *)
(* matched word and the stored status.                                     *)
(***************************************************************************)
C3_ExcludedDocumentsNeverReturned ==
    /\ (last.op = "FindTopDocuments" /\ last.outcome = "value") =>
          \A id \in ReturnedIds :
              \A w \in ExcludedTerms(last.raw_query) : ~Posted(w, id)
    /\ (/\ last.op = "MatchDocument"
        /\ last.outcome = "value"
        /\ \E w \in ExcludedTerms(last.raw_query) : Posted(w, last.document_id))
       => /\ last.matched_words = <<>>
          /\ last.status = documents_[last.document_id].status

\* A document with a required term that the predicate accepts is left out
\* because it also holds an excluded term, while another is returned.
C3_Witness ==
    /\ last.op = "FindTopDocuments"
    /\ last.outcome = "value"
    /\ last.value # <<>>
    /\ \E id \in DOMAIN documents_ :
          /\ Accepts(id)
          /\ \E w \in RequiredTerms(last.raw_query) : Posted(w, id)
          /\ \E w \in ExcludedTerms(last.raw_query) : Posted(w, id)
          /\ id \notin ReturnedIds

(***************************************************************************)
(* C5.  With Q the stored documents that are posted under a required term, *)
(* accepted by the predicate and posted under no excluded term: the ids    *)
(* find_top_documents returns are in Q, no id twice, each item has the     *)
(* stored rating, and the ids are exactly Q when Q has at most 5 members.  *)
(* The status overload accepts by status equality, the overload without a  *)
(* filter accepts ACTUAL.                                                  *)
(***************************************************************************)
Q ==
    {id \in DOMAIN documents_ :
        /\ \E w \in RequiredTerms(last.raw_query) : Posted(w, id)
        /\ Accepts(id)
        /\ \A w \in ExcludedTerms(last.raw_query) : ~Posted(w, id)}

C5_ResultIsTheAcceptedSet ==
    (last.op = "FindTopDocuments" /\ last.outcome = "value") =>
        /\ ReturnedIds \subseteq Q
        /\ Cardinality(ReturnedIds) = Len(last.value)
        /\ \A i \in 1..Len(last.value) :
              last.value[i].rating = documents_[last.value[i].id].rating
        /\ Cardinality(Q) <= MAX_RESULT_DOCUMENT_COUNT => ReturnedIds = Q

\* Every stored document holds the only required term, so each score is 0;
\* the predicate refuses some of them and the others are returned.
C5_Witness ==
    /\ last.op = "FindTopDocuments"
    /\ last.outcome = "value"
    /\ Len(last.value) >= 2
    /\ \A i \in 1..Len(last.value) : last.value[i].relevance = 0
    /\ \E id \in DOMAIN documents_ : ~Accepts(id)
    /\ ReturnedIds = Q

(***************************************************************************)
(* C4.  As claimed: a result of find_top_documents has at most 5 items,    *)
(* and of any two of them the earlier has a relevance greater by at least  *)
(* DELTA, or the relevances differ by less than DELTA and the earlier has  *)
(* a rating at least as great.                                             *)
(***************************************************************************)
C4_SortedByRelevanceThenRating ==
    (last.op = "FindTopDocuments" /\ last.outcome = "value") =>
        /\ Len(last.value) <= MAX_RESULT_DOCUMENT_COUNT
        /\ \A i \in 1..Len(last.value), j \in 1..Len(last.value) :
              i < j =>
                 \/ last.value[i].relevance - last.value[j].relevance >= DELTA
                 \/ /\ Abs(last.value[i].relevance - last.value[j].relevance) < DELTA
                    /\ last.value[i].rating >= last.value[j].rating

====
